---------------------------- MODULE Spec2Model ----------------------------
(***************************************************************************)
(* A model of go-sprintfjs: Parse (format string -> AST), FormatAST /      *)
(* Format (AST + arguments -> text or error), formatPlaceholder and the    *)
(* Number abstraction of number.go.                                        *)
(*                                                                         *)
(* Go strings are sequences of one-character strings, so that the regular  *)
(* expressions, slicing, padding and trimming of the source are computed   *)
(* character by character.  Machine integers are sign + magnitude in       *)
(* 16-bit limbs, so that the 32/64-bit conversions of number.go keep       *)
(* their width.                                                            *)
(***************************************************************************)
EXTENDS Integers, Sequences, FiniteSets, TLC

VARIABLES pc, format, args, ast, err, output, received, ph, value, s, calls

vars == <<pc, format, args, ast, err, output, received, ph, value, s, calls>>

---------------------------------------------------------------------------
(* Characters and strings                                                  *)

Digits == {"0", "1", "2", "3", "4", "5", "6", "7", "8", "9"}

NonZeroDigits == Digits \ {"0"}

Letters ==
  {"a", "b", "c", "d", "e", "f", "g", "h", "i", "j", "k", "l", "m",
   "n", "o", "p", "q", "r", "s", "t", "u", "v", "w", "x", "y", "z",
   "A", "B", "C", "D", "E", "F", "G", "H", "I", "J", "K", "L", "M",
   "N", "O", "P", "Q", "R", "S", "T", "U", "V", "W", "X", "Y", "Z"}

\* [a-z_] under (?i)
IdentStart == Letters \cup {"_"}

\* [a-z_\d] under (?i)
IdentChar == IdentStart \cup Digits

\* [b-gijostTuvxX]
TypeChars ==
  {"b", "c", "d", "e", "f", "g", "i", "j", "o", "s", "t", "T", "u", "v",
   "x", "X"}

Drop(str, n) == SubSeq(str, n + 1, Len(str))

Take(str, n) == SubSeq(str, 1, n)

RECURSIVE Repeat(_, _)
Repeat(str, n) == IF n <= 0 THEN <<>> ELSE str \o Repeat(str, n - 1)

RECURSIVE Concat(_)
Concat(strs) == IF strs = <<>> THEN <<>> ELSE Head(strs) \o Concat(Tail(strs))

\* number of consecutive characters of class C in str from position p
RECURSIVE RunLen(_, _, _)
RunLen(str, p, C) ==
  IF p <= Len(str) /\ str[p] \in C THEN 1 + RunLen(str, p + 1, C) ELSE 0

\* number of consecutive characters other than c in str from position p
RECURSIVE RunLenNot(_, _, _)
RunLenNot(str, p, c) ==
  IF p <= Len(str) /\ str[p] # c THEN 1 + RunLenNot(str, p + 1, c) ELSE 0

At(str, p) == IF p >= 1 /\ p <= Len(str) THEN str[p] ELSE ""

---------------------------------------------------------------------------
(* Errors.  The source returns error values carrying a message; the model  *)
(* keeps which error it is.                                                *)

NoErr == ""

ErrIndexOrWidth == "InvalidIndexOrWidth"        \* sprintfjs.go:78, 85

ErrKeyPath == "InvalidKeyPath"                  \* sprintfjs.go:111, 115

ErrMixed == "MixedPlaceholderStyle"             \* sprintfjs.go:123

ErrMalformed == "MalformedPlaceholder"          \* sprintfjs.go:128

ErrIndexRange == "ArgumentIndexOutOfRange"      \* sprintfjs.go:214, 235, 242

ErrKeyTraversal == "KeyPathTraversalError"      \* sprintfjs.go:221, 225

ErrNotANumber == "NotANumber"                   \* sprintfjs.go:254

ErrFormatValue == "FormatValueError"            \* sprintfjs.go:281

---------------------------------------------------------------------------
(* strconv.Atoi on a run of decimal digits: the value, or a range error    *)
(* when it does not fit a 64-bit int.                                      *)

DigitVal(c) ==
  CASE c = "0" -> 0 [] c = "1" -> 1 [] c = "2" -> 2 [] c = "3" -> 3
    [] c = "4" -> 4 [] c = "5" -> 5 [] c = "6" -> 6 [] c = "7" -> 7
    [] c = "8" -> 8 [] c = "9" -> 9

RECURSIVE StripZeros(_)
StripZeros(ds) ==
  IF Len(ds) > 1 /\ Head(ds) = "0" THEN StripZeros(Tail(ds)) ELSE ds

\* the decimal digits of math.MaxInt64 = 9223372036854775807
MaxInt64Digits ==
  <<"9", "2", "2", "3", "3", "7", "2", "0", "3", "6", "8", "5", "4", "7",
    "7", "5", "8", "0", "7">>

\* a <= b for digit strings of equal length
RECURSIVE DigitsLeq(_, _)
DigitsLeq(a, b) ==
  IF a = <<>> THEN TRUE
  ELSE IF DigitVal(Head(a)) < DigitVal(Head(b)) THEN TRUE
  ELSE IF DigitVal(Head(a)) > DigitVal(Head(b)) THEN FALSE
  ELSE DigitsLeq(Tail(a), Tail(b))

RECURSIVE DigitsValue(_, _)
DigitsValue(ds, acc) ==
  IF ds = <<>> THEN acc ELSE DigitsValue(Tail(ds), acc * 10 + DigitVal(Head(ds)))

AtoiOutOfRange(ds) ==
  LET z == StripZeros(ds)
  IN  \/ Len(z) > Len(MaxInt64Digits)
      \/ Len(z) = Len(MaxInt64Digits) /\ ~DigitsLeq(z, MaxInt64Digits)

Atoi(ds) ==
  IF AtoiOutOfRange(ds) THEN [ok |-> FALSE, v |-> 0]
  ELSE [ok |-> TRUE, v |-> DigitsValue(StripZeros(ds), 0)]

---------------------------------------------------------------------------
(* The regular expressions of sprintfjs.go:25-30, each anchored at the     *)
(* start of its input.                                                     *)

\* reText = ^[^%]+ : the length of the match, 0 when there is none
reText(str) == RunLenNot(str, 1, "%")

\* reModulo = ^%{2}
reModulo(str) == Len(str) >= 2 /\ str[1] = "%" /\ str[2] = "%"

NoMatch == [ok |-> FALSE]

NoGroups ==
  [m1 |-> <<>>, m2 |-> <<>>, m3 |-> <<>>, m4 |-> <<>>, m5 |-> <<>>,
   m6 |-> <<>>, m7 |-> <<>>]

\* the match of an optional group that is tried first, else the match
\* without it: the backtracking order of Go's regexp
OrElse(taken, skipped) == IF taken.ok THEN taken ELSE skipped

\* ([b-gijostTuvxX])
phType(str, p, m) ==
  IF At(str, p) \in TypeChars
  THEN [ok |-> TRUE, m0 |-> Take(str, p), m1 |-> m.m1, m2 |-> m.m2,
        m3 |-> m.m3, m4 |-> m.m4, m5 |-> m.m5, m6 |-> m.m6, m7 |-> m.m7,
        m8 |-> <<str[p]>>]
  ELSE NoMatch

\* the digits run of length n at p + 1 is the precision
phPrecisionTaken(str, p, m, n) ==
  IF n > 0
  THEN phType(str, p + 1 + n, [m EXCEPT !.m7 = SubSeq(str, p + 1, p + n)])
  ELSE NoMatch

\* (?:\.(\d+))?
phPrecision(str, p, m) ==
  OrElse(phPrecisionTaken(str, p, m,
           IF At(str, p) = "." THEN RunLen(str, p + 1, Digits) ELSE 0),
         phType(str, p, m))

\* the digits run of length n at p is the width
phWidthTaken(str, p, m, n) ==
  IF n > 0
  THEN phPrecision(str, p + n, [m EXCEPT !.m6 = SubSeq(str, p, p + n - 1)])
  ELSE NoMatch

\* (\d+)?
phWidth(str, p, m) ==
  OrElse(phWidthTaken(str, p, m, RunLen(str, p, Digits)), phPrecision(str, p, m))

\* (-)?
phAlign(str, p, m) ==
  OrElse(IF At(str, p) = "-"
         THEN phWidth(str, p + 1, [m EXCEPT !.m5 = <<"-">>])
         ELSE NoMatch,
         phWidth(str, p, m))

\* (0|'[^$])?
phPad(str, p, m) ==
  OrElse(IF At(str, p) = "0"
         THEN phAlign(str, p + 1, [m EXCEPT !.m4 = <<"0">>])
         ELSE NoMatch,
         OrElse(IF At(str, p) = "'" /\ p + 1 <= Len(str) /\ str[p + 1] # "$"
                THEN phAlign(str, p + 2, [m EXCEPT !.m4 = <<"'", str[p + 1]>>])
                ELSE NoMatch,
                phAlign(str, p, m)))

\* (\+)?
phSign(str, p, m) ==
  OrElse(IF At(str, p) = "+"
         THEN phPad(str, p + 1, [m EXCEPT !.m3 = <<"+">>])
         ELSE NoMatch,
         phPad(str, p, m))

\* where the rest starts, and the groups so far, after ([1-9]\d*)\$ with an
\* index of ni digits or after \(([^)]+)\) with a key path of nk characters
phAfterSelector(str, p, m, ni, nk) ==
  IF ni > 0
  THEN [p |-> p + ni + 1, m |-> [m EXCEPT !.m1 = SubSeq(str, p, p + ni - 1)]]
  ELSE [p |-> p + nk + 2, m |-> [m EXCEPT !.m2 = SubSeq(str, p + 1, p + nk)]]

phSelectorRest(str, after) == phSign(str, after.p, after.m)

phSelectorTaken(str, p, m, ni, nk) ==
  IF \/ ni > 0 /\ At(str, p + ni) = "$"
     \/ nk > 0 /\ At(str, p + 1 + nk) = ")"
  THEN phSelectorRest(str, phAfterSelector(str, p, m, ni, nk))
  ELSE NoMatch

\* (?:([1-9]\d*)\$|\(([^)]+)\))?
phSelector(str, p, m) ==
  OrElse(phSelectorTaken(str, p, m,
           IF At(str, p) \in NonZeroDigits
           THEN 1 + RunLen(str, p + 1, Digits) ELSE 0,
           IF At(str, p) = "(" THEN RunLenNot(str, p + 1, ")") ELSE 0),
         phSign(str, p, m))

\* rePlaceholder: the submatches m0..m8, or NoMatch
rePlaceholder(str) ==
  IF At(str, 1) = "%" THEN phSelector(str, 2, NoGroups) ELSE NoMatch

\* reKey = ^(?i:([a-z_][a-z_\d]*)) : the length of the match, 0 for none
reKey(str) ==
  IF At(str, 1) \in IdentStart THEN 1 + RunLen(str, 2, IdentChar) ELSE 0

\* reKeyAccess = ^\.(?i:([a-z_][a-z_\d]*)) : the length of the match
reKeyAccess(str) ==
  IF At(str, 1) = "." /\ At(str, 2) \in IdentStart
  THEN 2 + RunLen(str, 3, IdentChar) ELSE 0

\* reIndexAccess = ^\[(\d+)\] : the length of the match
reIndexAccess(str) ==
  LET n == IF At(str, 1) = "[" THEN RunLen(str, 2, Digits) ELSE 0
  IN  IF n > 0 /\ At(str, 2 + n) = "]" THEN n + 2 ELSE 0

---------------------------------------------------------------------------
(* Parse                                                                   *)

TextNode(text) ==
  [Text |-> text, Placeholder |-> <<>>, ParamNo |-> 0, Keys |-> <<>>,
   Sign |-> <<>>, Pad |-> <<>>, Align |-> <<>>, Width |-> 0,
   Precision |-> <<>>, Type |-> <<>>]

\* the loop of sprintfjs.go:99-113 over the rest of the key path
RECURSIVE parseKeyRest(_, _)
parseKeyRest(keyNames, keys) ==
  IF keyNames = <<>> THEN [ok |-> TRUE, keys |-> keys]
  ELSE IF reKeyAccess(keyNames) > 0
    THEN parseKeyRest(Drop(keyNames, reKeyAccess(keyNames)),
                      Append(keys, SubSeq(keyNames, 2, reKeyAccess(keyNames))))
  ELSE IF reIndexAccess(keyNames) > 0
    THEN parseKeyRest(Drop(keyNames, reIndexAccess(keyNames)), keys)
  ELSE [ok |-> FALSE, keys |-> <<>>]

\* sprintfjs.go:92-117: the key segments of a named placeholder
parseKeys(keyNames) ==
  IF reKey(keyNames) > 0
  THEN parseKeyRest(Drop(keyNames, reKey(keyNames)),
                    <<Take(keyNames, reKey(keyNames))>>)
  ELSE [ok |-> FALSE, keys |-> <<>>]

\* argNames = bit, what an assignment in place of |= would leave: the
\* styles of the earlier placeholders forgotten
AssignBit(argNames, bit) == bit

\* argNames |= bit, for bit 1 and bit 2
OrBit(argNames, bit) ==
  IF (argNames \div bit) % 2 = 1 THEN argNames ELSE argNames + bit

\* sprintfjs.go:75-88: the index or the width as an int, 0 when absent
optionalAtoi(ds) == IF ds # <<>> THEN Atoi(ds) ELSE [ok |-> TRUE, v |-> 0]

\* sprintfjs.go:90-117: the keys of a named placeholder, nil for the others
optionalKeys(keyNames) ==
  IF keyNames # <<>> THEN parseKeys(keyNames) ELSE [ok |-> TRUE, keys |-> <<>>]

\* sprintfjs.go:75-126 in the order of the code: the index, the width, the
\* key path, then the mixing check, then the node is appended
placeholderNode(m, paramNo, width, keys, names) ==
  IF ~paramNo.ok THEN [err |-> ErrIndexOrWidth]
  ELSE IF ~width.ok THEN [err |-> ErrIndexOrWidth]
  ELSE IF ~keys.ok THEN [err |-> ErrKeyPath]
  ELSE IF names = 3 THEN [err |-> ErrMixed]
  ELSE [err |-> NoErr,
        node |-> [Text |-> <<>>, Placeholder |-> m.m0, ParamNo |-> paramNo.v,
                  Keys |-> keys.keys, Sign |-> m.m3, Pad |-> m.m4,
                  Align |-> m.m5, Width |-> width.v, Precision |-> m.m7,
                  Type |-> m.m8],
        l |-> Len(m.m0), argNames |-> names]

\* sprintfjs.go:63-128: the placeholder match m, given argNames so far
parsePlaceholder(m, argNames) ==
  IF ~m.ok THEN [err |-> ErrMalformed]
  ELSE placeholderNode(m, optionalAtoi(m.m1), optionalAtoi(m.m6),
                       optionalKeys(m.m2),
                       IF m.m2 # <<>> THEN OrBit(argNames, 1)
                       ELSE OrBit(argNames, 2))

\* sprintfjs.go:57-59: a text token of l characters
parseText(fmt, l, argNames) ==
  [err |-> NoErr, node |-> TextNode(Take(fmt, l)), l |-> l,
   argNames |-> argNames]

\* the node of an escaped percent sign had Parse kept the matched text
ModuloKept == TextNode(<<"%", "%">>)

\* sprintfjs.go:60-62: the node of an escaped percent sign
ModuloNode == TextNode(<<"%">>)

\* sprintfjs.go:56-129: the token at the head of a non-empty format
parseToken(fmt, argNames) ==
  IF reText(fmt) > 0 THEN parseText(fmt, reText(fmt), argNames)
  ELSE IF reModulo(fmt)
  THEN [err |-> NoErr, node |-> ModuloNode, l |-> 2, argNames |-> argNames]
  ELSE parsePlaceholder(rePlaceholder(fmt), argNames)

RECURSIVE parseLoop(_, _, _)

\* sprintfjs.go:130-134: after the token t, the rest of the format
parseRest(fmt, nodes, t) ==
  IF t.err # NoErr THEN [ast |-> <<>>, err |-> t.err]
  ELSE IF t.l >= Len(fmt) THEN [ast |-> Append(nodes, t.node), err |-> NoErr]
  ELSE parseLoop(Drop(fmt, t.l), Append(nodes, t.node), t.argNames)

\* sprintfjs.go:55-135: the loop over the format
parseLoop(fmt, nodes, argNames) ==
  IF Len(fmt) = 0 THEN [ast |-> nodes, err |-> NoErr]
  ELSE parseRest(fmt, nodes, parseToken(fmt, argNames))

\* Parse(format): the AST and nil, or nil and the error
Parse(fmt) == parseLoop(fmt, <<>>, 0)

---------------------------------------------------------------------------
(* Machine integers.  An integer is [neg, mag]: a sign and a 64-bit        *)
(* magnitude of four 16-bit limbs, most significant first.                 *)

Limb == 2 ^ 16

WideOf(v) ==
  LET a == IF v < 0 THEN -v ELSE v
  IN  [neg |-> v < 0, mag |-> <<0, 0, a \div Limb, a % Limb>>]

magIsZero(mag) == mag = <<0, 0, 0, 0>>

magNot(mag) ==
  <<Limb - 1 - mag[1], Limb - 1 - mag[2], Limb - 1 - mag[3],
    Limb - 1 - mag[4]>>

RECURSIVE magInc(_, _)
magInc(mag, i) ==
  IF i = 0 THEN mag
  ELSE IF mag[i] = Limb - 1 THEN magInc([mag EXCEPT ![i] = 0], i - 1)
  ELSE [mag EXCEPT ![i] = mag[i] + 1]

\* the 64-bit two's-complement bit pattern of an integer
Pattern64(w) == IF w.neg THEN magInc(magNot(w.mag), 4) ELSE w.mag

\* uint32(v): the low 32 bits of the pattern, read as unsigned
ToUint32(w) ==
  [neg |-> FALSE, mag |-> <<0, 0, Pattern64(w)[3], Pattern64(w)[4]>>]

\* uint64(v): the 64 bits of the pattern, read as unsigned
ToUint64(w) == [neg |-> FALSE, mag |-> Pattern64(w)]

\* int64(v) of an unsigned v: the same 64 bits, read as signed
ToInt64(w) ==
  IF w.neg \/ w.mag[1] < Limb \div 2 THEN w
  ELSE [neg |-> TRUE, mag |-> magInc(magNot(w.mag), 4)]

\* mag divided by a small b: quotient limbs and remainder
RECURSIVE magDivMod(_, _, _)
magDivMod(limbs, rem, b) ==
  IF limbs = <<>> THEN [q |-> <<>>, r |-> rem]
  ELSE LET cur == rem * Limb + Head(limbs)
           rest == magDivMod(Tail(limbs), cur % b, b)
       IN  [q |-> <<cur \div b>> \o rest.q, r |-> rest.r]

LowerDigits == <<"0", "1", "2", "3", "4", "5", "6", "7", "8", "9", "a", "b", "c", "d", "e", "f">>

UpperDigits == <<"0", "1", "2", "3", "4", "5", "6", "7", "8", "9", "A", "B", "C", "D", "E", "F">>

RECURSIVE magDigits(_, _, _)
magDigits(mag, b, alphabet) ==
  IF magIsZero(mag) THEN <<>>
  ELSE LET dm == magDivMod(mag, 0, b)
       IN  magDigits(dm.q, b, alphabet) \o <<alphabet[dm.r + 1]>>

\* strconv/fmt integer formatting of an int64 or uint64 in base b
FormatInt(w, b, alphabet) ==
  (IF w.neg THEN <<"-">> ELSE <<>>)
    \o (IF magIsZero(w.mag) THEN <<"0">> ELSE magDigits(w.mag, b, alphabet))

\* the integer denoted by a run of decimal digits that fits 64 bits
RECURSIVE magOfDigits(_, _)
magOfDigits(ds, acc) ==
  IF ds = <<>> THEN acc
  ELSE LET x4 == acc[4] * 10 + DigitVal(Head(ds))
           x3 == acc[3] * 10 + x4 \div Limb
           x2 == acc[2] * 10 + x3 \div Limb
           x1 == acc[1] * 10 + x2 \div Limb
       IN  magOfDigits(Tail(ds), <<x1 % Limb, x2 % Limb, x3 % Limb, x4 % Limb>>)

---------------------------------------------------------------------------
(* float64 values, as strconv sees them: a sign, the shortest decimal      *)
(* digits d (no leading or trailing zero) and the position dp of the       *)
(* decimal point, value = 0.d * 10^dp.  Exact for the integers and short   *)
(* decimals the model draws.                                               *)

RECURSIVE StripTrailingZeros(_)
StripTrailingZeros(ds) ==
  IF ds # <<>> /\ ds[Len(ds)] = "0"
  THEN StripTrailingZeros(SubSeq(ds, 1, Len(ds) - 1)) ELSE ds

\* the decimal of integer digits ip and fraction digits fp
DecOfParts(neg, ip, fp) ==
  LET all == ip \o fp
      lead == RunLen(all, 1, {"0"})
      d == StripTrailingZeros(Drop(all, lead))
  IN  IF d = <<>> THEN [neg |-> neg, d |-> <<>>, dp |-> 0]
      ELSE [neg |-> neg, d |-> d, dp |-> Len(ip) - lead]

\* float64(v) of an integer
DecOfWide(w) ==
  DecOfParts(w.neg, magDigits(w.mag, 10, LowerDigits), <<>>)

DecIsZero(x) == x.d = <<>>

DecDigit(x, i) == IF i >= 1 /\ i <= Len(x.d) THEN x.d[i] ELSE "0"

\* int64(f): truncation toward zero
WideOfDec(x) ==
  IF x.dp <= 0 \/ DecIsZero(x) THEN WideOf(0)
  ELSE [neg |-> x.neg,
        mag |-> magOfDigits([i \in 1..x.dp |-> DecDigit(x, i)], <<0, 0, 0, 0>>)]

\* strconv decimal.RoundUp / RoundDown / Round to nd digits
RECURSIVE decRoundUp(_, _)
decRoundUp(x, i) ==
  IF i = 0 THEN [neg |-> x.neg, d |-> <<"1">>, dp |-> x.dp + 1]
  ELSE IF x.d[i] # "9"
    THEN [neg |-> x.neg,
          d |-> Take(x.d, i - 1) \o <<LowerDigits[DigitVal(x.d[i]) + 2]>>,
          dp |-> x.dp]
  ELSE decRoundUp(x, i - 1)

decRoundDown(x, nd) ==
  LET d == StripTrailingZeros(Take(x.d, nd))
  IN  [neg |-> x.neg, d |-> d, dp |-> IF d = <<>> THEN 0 ELSE x.dp]

decShouldRoundUp(x, nd) ==
  IF nd < 0 \/ nd >= Len(x.d) THEN FALSE
  ELSE IF x.d[nd + 1] = "5" /\ nd + 1 = Len(x.d)
    THEN nd > 0 /\ DigitVal(x.d[nd]) % 2 # 0
  ELSE DigitVal(x.d[nd + 1]) >= 5

decRound(x, nd) ==
  IF nd < 0 \/ nd >= Len(x.d) THEN x
  ELSE IF decShouldRoundUp(x, nd) THEN decRoundUp(x, nd)
  ELSE decRoundDown(x, nd)

\* strconv %e: d.ddddde+-dd
fmtE(x, prec) ==
  LET exp == IF DecIsZero(x) THEN 0 ELSE x.dp - 1
      aexp == IF exp < 0 THEN -exp ELSE exp
      expDigits == magDigits(WideOf(aexp).mag, 10, LowerDigits)
  IN  (IF x.neg THEN <<"-">> ELSE <<>>)
        \o <<DecDigit(x, 1)>>
        \o (IF prec > 0
            THEN <<".">> \o [i \in 1..prec |-> DecDigit(x, i + 1)] ELSE <<>>)
        \o <<"e">>
        \o (IF exp < 0 THEN <<"-">> ELSE <<"+">>)
        \o (IF aexp < 10 THEN <<"0">> \o <<LowerDigits[aexp + 1]>> ELSE expDigits)

\* strconv %f: ddddd.ddd
fmtF(x, prec) ==
  (IF x.neg THEN <<"-">> ELSE <<>>)
    \o (IF x.dp > 0 THEN [i \in 1..x.dp |-> DecDigit(x, i)] ELSE <<"0">>)
    \o (IF prec > 0
        THEN <<".">> \o [i \in 1..prec |-> DecDigit(x, x.dp + i)] ELSE <<>>)

Max(a, b) == IF a >= b THEN a ELSE b

\* strconv: the digits after the point (for g: the significant digits) of
\* the shortest text of x, or the precision asked for
floatPrec(x, c, prec) ==
  IF prec < 0
  THEN (CASE c = "e" -> Max(Len(x.d) - 1, 0)
          [] c = "f" -> Max(Len(x.d) - x.dp, 0)
          [] OTHER -> Len(x.d))
  ELSE IF c = "g" /\ prec = 0 THEN 1 ELSE prec

\* strconv: the decimal rounded to the precision p, x itself for the shortest
floatDigits(x, c, prec, p) ==
  IF prec < 0 THEN x
  ELSE (CASE c = "e" -> decRound(x, p + 1)
          [] c = "f" -> decRound(x, x.dp + p)
          [] OTHER -> decRound(x, p))

\* strconv.formatDigits: %e, %f, or for %g the one of them the exponent picks
formatDigits(c, shortest, p, digs) ==
  LET nd == Len(digs.d)
      eprec == IF shortest THEN 6
               ELSE IF p > nd /\ nd >= digs.dp THEN nd ELSE p
      exp == digs.dp - 1
      useE == c = "e" \/ (c # "f" /\ (exp < -4 \/ exp >= eprec))
  IN  IF useE
      THEN fmtE(digs, IF c = "e" THEN p ELSE (IF p > nd THEN nd ELSE p) - 1)
      ELSE fmtF(digs, IF c = "f" THEN p ELSE Max(nd - digs.dp, 0))

floatText(x, c, prec, p) ==
  formatDigits(c, prec < 0, p, floatDigits(x, c, prec, p))

\* strconv.FormatFloat(f, c, prec, 64) for c in e, f, g; prec < 0 is shortest
FormatFloat(x, c, prec) == floatText(x, c, prec, floatPrec(x, c, prec))

---------------------------------------------------------------------------
(* Argument values: Go's interface{} as a tagged record.                   *)
(*   nil                    [k |-> "nil"]                                    *)
(*   bool                   [k |-> "bool", b]                                *)
(*   int, int8, ... uint64  [k |-> kind, n |-> integer]                      *)
(*   float32, float64       [k |-> kind, f |-> decimal]                      *)
(*   string                 [k |-> "string", str]                            *)
(*   map[string]interface{} [k |-> "map", m |-> <<key, value>> pairs in     *)
(*                           key order, the order fmt and json print them]  *)
(*   *int                   [k |-> "ptr", isnil, elem |-> pointee]           *)
(*   func() T               [k |-> "func", results |-> what a call returns]  *)
(*   []reflect.Value        [k |-> "reflectValues", elems |-> the values]    *)

NilV == [k |-> "nil"]

BoolV(b) == [k |-> "bool", b |-> b]

IntV(kind, v) == [k |-> kind, n |-> WideOf(v)]

StrV(str) == [k |-> "string", str |-> str]

MapV(pairs) == [k |-> "map", m |-> pairs]

PtrV(isnil, elem) == [k |-> "ptr", isnil |-> isnil, elem |-> WideOf(elem)]

\* a function of no arguments that returns result
FuncV(result) == [k |-> "func", results |-> <<result>>]

ReflectValuesV(elems) == [k |-> "reflectValues", elems |-> elems]

SignedKinds == {"int", "int8", "int32", "int64"}

UnsignedKinds == {"uint", "uint8", "uint32", "uint64"}

FloatKinds == {"float32", "float64"}

IntKinds == SignedKinds \cup UnsignedKinds

\* marg[key]: the mapped value, nil when the key is absent
RECURSIVE MapGet(_, _)
MapGet(pairs, key) ==
  IF pairs = <<>> THEN NilV
  ELSE IF Head(pairs)[1] = key THEN Head(pairs)[2]
  ELSE MapGet(Tail(pairs), key)

---------------------------------------------------------------------------
(* strconv.ParseFloat / ParseInt on the decimal forms                      *)
(*   [+-]? digits [. digits*]  |  [+-]? . digits                           *)

numBody(str) == IF At(str, 1) \in {"+", "-"} THEN Tail(str) ELSE str

numIntLen(str) == RunLen(numBody(str), 1, Digits)

numFracLen(str) ==
  IF At(numBody(str), numIntLen(str) + 1) = "."
  THEN RunLen(numBody(str), numIntLen(str) + 2, Digits) ELSE 0

numHasDot(str) == At(numBody(str), numIntLen(str) + 1) = "."

ParseFloatOK(str) ==
  /\ numIntLen(str) + numFracLen(str) > 0
  /\ Len(numBody(str))
       = numIntLen(str) + (IF numHasDot(str) THEN 1 + numFracLen(str) ELSE 0)

ParseFloat(str) ==
  DecOfParts(At(str, 1) = "-",
             Take(numBody(str), numIntLen(str)),
             SubSeq(numBody(str), numIntLen(str) + 2,
                    numIntLen(str) + 1 + numFracLen(str)))

\* ParseInt(v, 10, 64): sign and digits only, within the int64 range
ParseIntOK(str) ==
  /\ numIntLen(str) > 0
  /\ Len(numBody(str)) = numIntLen(str)
  /\ ~AtoiOutOfRange(numBody(str))

ParseInt(str) ==
  LET mag == magOfDigits(numBody(str), <<0, 0, 0, 0>>)
  IN  [neg |-> At(str, 1) = "-" /\ ~magIsZero(mag), mag |-> mag]

---------------------------------------------------------------------------
(* number.go: the Number abstraction.  A Number wraps the value itself.    *)

\* Number.IsNaN
IsNaN(v) ==
  IF v.k \in IntKinds \cup FloatKinds THEN FALSE
  ELSE IF v.k = "string" THEN ~ParseFloatOK(v.str)
  ELSE TRUE

\* Number.Float64: [ok, f]
Float64(v) ==
  IF v.k \in IntKinds THEN [ok |-> TRUE, f |-> DecOfWide(v.n)]
  ELSE IF v.k \in FloatKinds THEN [ok |-> TRUE, f |-> v.f]
  ELSE IF v.k = "string" /\ ParseFloatOK(v.str)
    THEN [ok |-> TRUE, f |-> ParseFloat(v.str)]
  ELSE [ok |-> FALSE, f |-> DecOfWide(WideOf(0))]

\* Number.Int64: [ok, n]
Int64(v) ==
  IF v.k \in IntKinds THEN [ok |-> TRUE, n |-> ToInt64(v.n)]
  ELSE IF v.k \in FloatKinds THEN [ok |-> TRUE, n |-> WideOfDec(v.f)]
  ELSE IF v.k = "string" /\ ParseIntOK(v.str)
    THEN [ok |-> TRUE, n |-> ParseInt(v.str)]
  ELSE [ok |-> FALSE, n |-> WideOf(0)]

\* Number.IsPositive
IsPositive(v) ==
  IF v.k \in SignedKinds THEN ~v.n.neg
  ELSE IF v.k \in FloatKinds THEN ~v.f.neg \/ DecIsZero(v.f)
  ELSE IF v.k \in UnsignedKinds THEN TRUE
  ELSE IF v.k = "string"
    THEN Float64(v).ok /\ (~Float64(v).f.neg \/ DecIsZero(Float64(v).f))
  ELSE FALSE

\* unsigned(v), Number.Unsigned
unsigned(v) ==
  IF v.k \in {"int", "int8", "int32"} THEN [k |-> "uint32", n |-> ToUint32(v.n)]
  ELSE IF v.k = "int64" THEN [k |-> "uint64", n |-> ToUint64(v.n)]
  ELSE v

\* the loop of trimExcessZerosFromExponent, l a 0-based index into str
RECURSIVE trimExponentLoop(_, _)
trimExponentLoop(str, l) ==
  IF l > 0
  THEN IF str[l + 1] = "+" THEN Take(str, l + 2)
       ELSE IF str[l + 1] # "0" THEN str
       ELSE trimExponentLoop(str, l - 1)
  ELSE str

trimExcessZerosFromExponent(str) == trimExponentLoop(str, Len(str) - 1)

---------------------------------------------------------------------------
(* Package fmt, for the verbs and operands the renderer hands it.  prec is *)
(* the precision of the directive, -1 when it has none.                    *)

\* %T
RECURSIVE TypeOf(_)
TypeOf(v) ==
  CASE v.k = "nil" -> <<"<", "n", "i", "l", ">">>
    [] v.k = "bool" -> <<"b", "o", "o", "l">>
    [] v.k = "int" -> <<"i", "n", "t">>
    [] v.k = "int8" -> <<"i", "n", "t", "8">>
    [] v.k = "int32" -> <<"i", "n", "t", "3", "2">>
    [] v.k = "int64" -> <<"i", "n", "t", "6", "4">>
    [] v.k = "uint" -> <<"u", "i", "n", "t">>
    [] v.k = "uint8" -> <<"u", "i", "n", "t", "8">>
    [] v.k = "uint32" -> <<"u", "i", "n", "t", "3", "2">>
    [] v.k = "uint64" -> <<"u", "i", "n", "t", "6", "4">>
    [] v.k = "float32" -> <<"f", "l", "o", "a", "t", "3", "2">>
    [] v.k = "float64" -> <<"f", "l", "o", "a", "t", "6", "4">>
    [] v.k = "string" -> <<"s", "t", "r", "i", "n", "g">>
    [] v.k = "map" -> <<"m", "a", "p", "[", "s", "t", "r", "i", "n", "g", "]", "i", "n", "t", "e", "r", "f", "a", "c", "e", " ", "{", "}">>
    [] v.k = "ptr" -> <<"*", "i", "n", "t">>
    [] v.k = "func" -> <<"f", "u", "n", "c", "(", ")", " ">> \o TypeOf(v.results[1])
    [] v.k = "reflectValues" -> <<"[", "]", "r", "e", "f", "l", "e", "c", "t", ".", "V", "a", "l", "u", "e">>

TruncateTo(str, prec) ==
  IF prec >= 0 /\ prec < Len(str) THEN Take(str, prec) ELSE str

\* an integer under %v / %d with a precision: at least prec digits
fmtIntegerPrec(w, prec) ==
  LET ds == IF magIsZero(w.mag) THEN <<"0">> ELSE magDigits(w.mag, 10, LowerDigits)
  IN  IF prec = 0 /\ magIsZero(w.mag) THEN <<>>
      ELSE (IF w.neg THEN <<"-">> ELSE <<>>) \o Repeat(<<"0">>, prec - Len(ds)) \o ds

\* the address a non-nil pointer prints as: one the run happens to have
PointerText == <<"0", "x", "c", "0", "0", "0", "0", "1", "2", "3", "4", "5">>

\* reflect.Value.String, which fmt prints an element of a []reflect.Value
\* with under %v and %s
reflectValueString(v) ==
  IF v.k = "string" THEN v.str ELSE <<"<">> \o TypeOf(v) \o <<" ", "V", "a", "l", "u", "e", ">">>

\* a []reflect.Value under %v and %s
fmtReflectValues(elems, prec) ==
  <<"[">>
    \o Concat([i \in 1..Len(elems) |->
         (IF i > 1 THEN <<" ">> ELSE <<>>)
           \o TruncateTo(reflectValueString(elems[i]), prec)])
    \o <<"]">>

\* %v, and fmt.Sprint of one operand
RECURSIVE fmtV(_, _)
fmtV(v, prec) ==
  CASE v.k = "nil" -> <<"<", "n", "i", "l", ">">>
    [] v.k = "bool" -> IF v.b THEN <<"t", "r", "u", "e">> ELSE <<"f", "a", "l", "s", "e">>
    [] v.k \in IntKinds -> fmtIntegerPrec(v.n, prec)
    [] v.k \in FloatKinds -> FormatFloat(v.f, "g", prec)
    [] v.k = "string" -> TruncateTo(v.str, prec)
    [] v.k = "ptr" -> IF v.isnil THEN <<"<", "n", "i", "l", ">">> ELSE PointerText
    [] v.k = "func" -> PointerText
    [] v.k = "reflectValues" -> fmtReflectValues(v.elems, prec)
    [] v.k = "map" ->
         <<"m", "a", "p", "[">>
           \o Concat([i \in 1..Len(v.m) |->
                (IF i > 1 THEN <<" ">> ELSE <<>>)
                  \o TruncateTo(v.m[i][1], prec) \o <<":">> \o fmtV(v.m[i][2], prec)])
           \o <<"]">>

Sprint(v) == fmtV(v, -1)

\* %!verb(type=value), fmt's report of a verb the operand does not take
fmtBadVerb(c, v, prec) ==
  IF v.k = "nil" THEN <<"%", "!">> \o <<c>> \o <<"(", "<", "n", "i", "l", ">", ")">>
  ELSE <<"%", "!">> \o <<c>> \o <<"(">> \o TypeOf(v) \o <<"=">> \o fmtV(v, prec) \o <<")">>

\* %s
RECURSIVE fmtS(_, _)
fmtS(v, prec) ==
  CASE v.k = "string" -> TruncateTo(v.str, prec)
    [] v.k = "reflectValues" -> fmtReflectValues(v.elems, prec)
    [] v.k = "map" ->
         <<"m", "a", "p", "[">>
           \o Concat([i \in 1..Len(v.m) |->
                (IF i > 1 THEN <<" ">> ELSE <<>>)
                  \o TruncateTo(v.m[i][1], prec) \o <<":">> \o fmtS(v.m[i][2], prec)])
           \o <<"]">>
    [] OTHER -> fmtBadVerb("s", v, prec)

\* the printable ASCII characters, code 32 to 126 (the grave accent, which
\* the TLA+ lexer does not take in a string, by its code point)
AsciiPrintable ==
  <<" ", "!", "\"", "#", "$", "%", "&", "'", "(", ")", "*", "+", ",", "-",
    ".", "/", "0", "1", "2", "3", "4", "5", "6", "7", "8", "9", ":", ";",
    "<", "=", ">", "?", "@", "A", "B", "C", "D", "E", "F", "G", "H", "I",
    "J", "K", "L", "M", "N", "O", "P", "Q", "R", "S", "T", "U", "V", "W",
    "X", "Y", "Z", "[", "\\", "]", "^", "_", "U+96", "a", "b", "c", "d", "e",
    "f", "g", "h", "i", "j", "k", "l", "m", "n", "o", "p", "q", "r", "s",
    "t", "u", "v", "w", "x", "y", "z", "{", "|", "}", "~">>

\* the character with code point w; U+FFFD for no code point
RuneOf(w) ==
  LET code == w.mag[3] * Limb + w.mag[4]
  IN  IF w.neg \/ w.mag[1] # 0 \/ w.mag[2] # 0 \/ w.mag[3] > 16
      THEN "U+65533"
      ELSE IF code >= 32 /\ code <= 126 THEN AsciiPrintable[code - 31]
      ELSE "U+" \o ToString(code)

\* %c
fmtC(v) ==
  IF v.k \in IntKinds THEN <<RuneOf(v.n)>> ELSE fmtBadVerb("c", v, -1)

\* %b of an integer or a string
fmtB(v) ==
  IF v.k \in IntKinds THEN FormatInt(v.n, 2, LowerDigits)
  ELSE fmtBadVerb("b", v, -1)

---------------------------------------------------------------------------
(* number.go: Number.Format, the text a Number writes for verb c           *)

\* number.go:28, 36, 44, 60: "%%!%c(%T=%v)"
numberBadVerb(c, v) ==
  <<"%", "!">> \o <<c>> \o <<"(">> \o TypeOf(v) \o <<"=">> \o Sprint(v) \o <<")">>

\* number.go:24-30, 32-38, 55-62: fmt's text of the converted integer, or
\* the bad-verb text when the conversion failed
numberInteger(c, v, i64, base, alphabet) ==
  IF i64.ok THEN FormatInt(i64.n, base, alphabet) ELSE numberBadVerb(c, v)

\* number.go:50-53
numberFloatText(c, str) ==
  IF c = "e" THEN trimExcessZerosFromExponent(str) ELSE str

\* number.go:40-53
numberFloat(c, v, f64, prec) ==
  IF f64.ok THEN numberFloatText(c, FormatFloat(f64.f, c, prec))
  ELSE numberBadVerb(c, v)

\* number.go:20-65
NumberFormat(v, c, prec) ==
  IF c = "b" THEN fmtB(v)
  ELSE IF c \in {"e", "f", "g"} THEN numberFloat(c, v, Float64(v), prec)
  ELSE numberInteger(c, v,
         IF c \in {"i", "d"} THEN Int64(v) ELSE Int64(unsigned(v)),
         IF c = "o" THEN 8 ELSE IF c \in {"x", "X"} THEN 16 ELSE 10,
         IF c = "X" THEN UpperDigits ELSE LowerDigits)

---------------------------------------------------------------------------
(* sprintfjs.go: the value renderer                                        *)

\* reNumericArg = [bcdiefguxX]
reNumericArg == {"b", "c", "d", "i", "e", "f", "g", "u", "x", "X"}

\* reNumber = [diefg]
reNumber == {"d", "i", "e", "f", "g"}

\* the type characters whose operand is the Number (sprintfjs.go:261)
NumberTypes == {"b", "d", "i", "u", "e", "f", "g", "o", "x", "X"}

\* reSign.ReplaceAllString(str, ""), reSign = ^[+-]
reSignRemove(str) == IF At(str, 1) \in {"+", "-"} THEN Tail(str) ELSE str

trim(str, width) ==
  IF width < 0 \/ width >= Len(str) THEN str ELSE Take(str, width)

sign(positive) == IF positive THEN <<"+">> ELSE <<"-">>

coerceBoolean(v) ==
  IF v.k = "ptr" THEN ~v.isnil
  ELSE IF v.k \in IntKinds THEN ~magIsZero(v.n.mag)
  ELSE IF v.k = "bool" THEN v.b
  ELSE Sprint(v) \notin {<<"0">>, <<>>}

typeName(v) ==
  IF v.k = "nil" THEN <<"n", "u", "l", "l">>
  ELSE IF v.k = "reflectValues" THEN <<"a", "r", "r", "a", "y">>
  ELSE IF v.k = "func" THEN <<"f", "u", "n", "c", "t", "i", "o", "n">>
  ELSE IF v.k = "bool" THEN <<"b", "o", "o", "l", "e", "a", "n">>
  ELSE IF v.k = "string" THEN <<"s", "t", "r", "i", "n", "g">>
  ELSE IF ~IsNaN(v) THEN <<"n", "u", "m", "b", "e", "r">>
  ELSE <<"o", "b", "j", "e", "c", "t">>

\* encoding/json: Marshal (indent = 0) and MarshalIndent of the value, at
\* nesting depth; strings of the model need no escaping
RECURSIVE jsonText(_, _, _)
jsonText(v, indent, depth) ==
  CASE v.k = "nil" -> <<"n", "u", "l", "l">>
    [] v.k = "bool" -> IF v.b THEN <<"t", "r", "u", "e">> ELSE <<"f", "a", "l", "s", "e">>
    [] v.k \in IntKinds -> FormatInt(v.n, 10, LowerDigits)
    [] v.k \in FloatKinds -> FormatFloat(v.f, "f", -1)
    [] v.k = "string" -> <<"\"">> \o v.str \o <<"\"">>
    [] v.k = "ptr" -> IF v.isnil THEN <<"n", "u", "l", "l">> ELSE FormatInt(v.elem, 10, LowerDigits)
    [] v.k = "reflectValues" ->
         \* a reflect.Value is a struct with no exported field
         IF v.elems = <<>> THEN <<"[", "]">>
         ELSE <<"[">>
           \o Concat([i \in 1..Len(v.elems) |->
                (IF i > 1 THEN <<",">> ELSE <<>>)
                  \o (IF indent > 0
                      THEN <<"\n">> \o Repeat(<<" ">>, indent * (depth + 1)) ELSE <<>>)
                  \o <<"{", "}">>])
           \o (IF indent > 0 THEN <<"\n">> \o Repeat(<<" ">>, indent * depth) ELSE <<>>)
           \o <<"]">>
    [] v.k = "map" ->
         IF v.m = <<>> THEN <<"{", "}">>
         ELSE <<"{">>
           \o Concat([i \in 1..Len(v.m) |->
                (IF i > 1 THEN <<",">> ELSE <<>>)
                  \o (IF indent > 0
                      THEN <<"\n">> \o Repeat(<<" ">>, indent * (depth + 1)) ELSE <<>>)
                  \o <<"\"">> \o v.m[i][1] \o <<"\"", ":">>
                  \o (IF indent > 0 THEN <<" ">> ELSE <<>>)
                  \o jsonText(v.m[i][2], indent, depth + 1)])
           \o (IF indent > 0 THEN <<"\n">> \o Repeat(<<" ">>, indent * depth) ELSE <<>>)
           \o <<"}">>

\* formatJSON; the values of the model all encode, so err is always nil
formatJSON(v, indent) == [str |-> jsonText(v, indent, 0), err |-> NoErr]

\* fmt.Sprintf("%" + typ, operand) / ("%." + precision + typ, operand): the
\* operand is the Number for the number types, the coerced bool for t
Sprintf(typ, prec, v) ==
  CASE typ \in NumberTypes -> NumberFormat(v, typ, prec)
    [] typ = "s" -> fmtS(v, prec)
    [] typ = "v" -> fmtV(v, prec)
    [] typ = "t" -> IF v.k = "bool" THEN Sprint(v) ELSE fmtBadVerb("t", v, prec)

\* sprintfjs.go:300-307: %t with a precision, the word trimmed to it
trimmedBoolean(v, width) ==
  IF width.ok THEN [str |-> trim(Sprint(v), width.v), err |-> NoErr]
  ELSE [str |-> <<>>, err |-> ErrFormatValue]

formatWithPrecision(typ, precision, v) ==
  IF precision # <<>> /\ typ = "t" THEN trimmedBoolean(v, Atoi(precision))
  ELSE [str |-> Sprintf(typ, IF precision = <<>> THEN -1
                             ELSE Atoi(precision).v, v),
        err |-> NoErr]

\* alignedPad without the branch of sprintfjs.go:342-344: the sign never
\* goes before the padding
alignedPadSignLast(str, width, padSpec, align, signChar) ==
  LET padChar == IF padSpec = <<>> THEN <<" ">>
                 ELSE IF Len(padSpec) > 1 THEN Tail(padSpec)
                 ELSE padSpec
      padLen == width - Len(signChar) - Len(str)
      pad == IF width > 0 /\ padLen > 0 THEN Repeat(padChar, padLen) ELSE <<>>
  IN  IF align = <<"-">> THEN signChar \o str \o pad
      ELSE pad \o signChar \o str

alignedPad(str, width, padSpec, align, signChar) ==
  LET padChar == IF padSpec = <<>> THEN <<" ">>
                 ELSE IF Len(padSpec) > 1 THEN Tail(padSpec)
                 ELSE padSpec
      padLen == width - Len(signChar) - Len(str)
      pad == IF width > 0 /\ padLen > 0 THEN Repeat(padChar, padLen) ELSE <<>>
  IN  IF align = <<"-">> THEN signChar \o str \o pad
      ELSE IF padChar = <<"0">> THEN signChar \o pad \o str
      ELSE pad \o signChar \o str

\* the switch of formatPlaceholder (sprintfjs.go:257-278): the operand of
\* the types that go through formatWithPrecision
precisionOperand(c, v) == IF c = "t" THEN BoolV(coerceBoolean(v)) ELSE v

\* the switch of formatPlaceholder (sprintfjs.go:257-278): [str, err]
formatValue(node, v) ==
  CASE node.Type = <<"c">> -> [str |-> fmtC(v), err |-> NoErr]
    [] node.Type = <<"j">> -> formatJSON(v, node.Width)
    [] node.Type = <<"T">> -> [str |-> typeName(v), err |-> NoErr]
    [] OTHER -> formatWithPrecision(node.Type[1], node.Precision,
                                    precisionOperand(node.Type[1], v))

\* sprintfjs.go:284-292: the sign and the padding around the text str
signedAndPadded(node, str, signed, positive) ==
  alignedPad(IF signed THEN reSignRemove(str) ELSE str, node.Width, node.Pad,
             node.Align, IF signed THEN sign(positive) ELSE <<>>)

\* sprintfjs.go:263-292: what becomes of the switch's result f
formattedValue(node, f, positive) ==
  IF node.Type = <<"j">> /\ f.err = NoErr
  THEN [formatted |-> f.str, err |-> NoErr]
  ELSE IF f.err # NoErr THEN [formatted |-> <<>>, err |-> ErrFormatValue]
  ELSE [formatted |->
          signedAndPadded(node, f.str,
            node.Type[1] \in reNumber /\ (~positive \/ node.Sign # <<>>),
            positive),
        err |-> NoErr]

\* sprintfjs.go:252-292: the placeholder formats the value v
formatDispatched(node, v) ==
  IF node.Type[1] \in reNumericArg /\ IsNaN(v)
  THEN [formatted |-> <<>>, err |-> ErrNotANumber]
  ELSE formattedValue(node, formatValue(node, v), IsPositive(v))

isFunc(v) == v.k = "func"

\* sprintfjs.go:249: reflect.ValueOf(value).Call([]reflect.Value{}), the
\* slice of the results of the call
calledValue(v) == ReflectValuesV(v.results)

\* sprintfjs.go:248-250: a function is called unless the type is T or v,
\* reNotType = [^T], reNotPrimitive = [^v]
deferredValue(node, v) ==
  IF node.Type[1] # "T" /\ node.Type[1] # "v" /\ isFunc(v)
  THEN calledValue(v) ELSE v

\* formatPlaceholder(ph, value): [formatted, err]
formatPlaceholder(node, v) == formatDispatched(node, deferredValue(node, v))

---------------------------------------------------------------------------
(* sprintfjs.go: the argument resolver and FormatAST                       *)

\* the walk had it refused a key the mapping does not hold
RECURSIVE walkKeysPresent(_, _)
walkKeysPresent(arg, keys) ==
  IF keys = <<>> THEN [arg |-> arg, err |-> NoErr]
  ELSE IF arg.k = "nil" THEN [arg |-> NilV, err |-> ErrKeyTraversal]
  ELSE IF arg.k # "map" THEN [arg |-> NilV, err |-> ErrKeyTraversal]
  ELSE IF MapGet(arg.m, Head(keys)).k = "nil"
    THEN [arg |-> NilV, err |-> ErrKeyTraversal]
  ELSE walkKeysPresent(MapGet(arg.m, Head(keys)), Tail(keys))

\* the walk of sprintfjs.go:219-228 over the key segments
RECURSIVE walkKeys(_, _)
walkKeys(arg, keys) ==
  IF keys = <<>> THEN [arg |-> arg, err |-> NoErr]
  ELSE IF arg.k = "nil" THEN [arg |-> NilV, err |-> ErrKeyTraversal]
  ELSE IF arg.k # "map" THEN [arg |-> NilV, err |-> ErrKeyTraversal]
  ELSE walkKeys(MapGet(arg.m, Head(keys)), Tail(keys))

\* argumentValue had an explicit index moved the cursor as well
argumentValueAdvancing(node, argv, cursor) ==
  IF node.Keys # <<>>
  THEN IF cursor < 0 \/ cursor >= Len(argv)
       THEN [arg |-> NilV, nextCursor |-> cursor, err |-> ErrIndexRange]
       ELSE [arg |-> walkKeys(argv[cursor + 1], node.Keys).arg,
             nextCursor |-> cursor,
             err |-> walkKeys(argv[cursor + 1], node.Keys).err]
  ELSE IF node.ParamNo # 0
    THEN IF node.ParamNo < 1 \/ node.ParamNo > Len(argv)
         THEN [arg |-> NilV, nextCursor |-> cursor, err |-> ErrIndexRange]
         ELSE [arg |-> argv[node.ParamNo], nextCursor |-> cursor + 1,
               err |-> NoErr]
  ELSE IF cursor < 0 \/ cursor >= Len(argv)
    THEN [arg |-> NilV, nextCursor |-> cursor, err |-> ErrIndexRange]
  ELSE [arg |-> argv[cursor + 1], nextCursor |-> cursor + 1, err |-> NoErr]

\* argumentValue(ph, args, cursor): [arg, nextCursor, err]
argumentValue(node, argv, cursor) ==
  IF node.Keys # <<>>
  THEN IF cursor < 0 \/ cursor >= Len(argv)
       THEN [arg |-> NilV, nextCursor |-> cursor, err |-> ErrIndexRange]
       ELSE [arg |-> walkKeys(argv[cursor + 1], node.Keys).arg,
             nextCursor |-> cursor,
             err |-> walkKeys(argv[cursor + 1], node.Keys).err]
  ELSE IF node.ParamNo # 0
    THEN IF node.ParamNo < 1 \/ node.ParamNo > Len(argv)
         THEN [arg |-> NilV, nextCursor |-> cursor, err |-> ErrIndexRange]
         ELSE [arg |-> argv[node.ParamNo], nextCursor |-> cursor, err |-> NoErr]
  ELSE IF cursor < 0 \/ cursor >= Len(argv)
    THEN [arg |-> NilV, nextCursor |-> cursor, err |-> ErrIndexRange]
  ELSE [arg |-> argv[cursor + 1], nextCursor |-> cursor + 1, err |-> NoErr]

\* the render stops and hands back what it has written so far
abortKeepingOutput(out, e, recv) ==
  [output |-> out, err |-> e, received |-> recv]

\* sprintfjs.go:192-194, 198-200: the render stops, the output so far is
\* dropped
abortRender(out, e, recv) == [output |-> <<>>, err |-> e, received |-> recv]

RECURSIVE formatLoop(_, _, _, _, _, _)

\* sprintfjs.go:197-204: the text f of node i is written, or its error ends
\* the render
writeNode(nodes, argv, i, cursor, out, recv, f) ==
  IF f.err # NoErr THEN abortRender(out, f.err, recv)
  ELSE formatLoop(nodes, argv, i + 1, cursor, out \o f.formatted, recv)

\* sprintfjs.go:191-197: node i with its resolved argument a
formatNode(nodes, argv, i, out, recv, a) ==
  IF a.err # NoErr THEN abortRender(out, a.err, recv)
  ELSE writeNode(nodes, argv, i, a.nextCursor, out,
                 Append(recv, [node |-> i, arg |-> a.arg]),
                 formatPlaceholder(nodes[i], a.arg))

\* the loop of FormatAST from node i on: [output, err, received], received
\* the argument each placeholder rendered so far was handed
formatLoop(nodes, argv, i, cursor, out, recv) ==
  IF i > Len(nodes) THEN [output |-> out, err |-> NoErr, received |-> recv]
  ELSE IF nodes[i].Text # <<>>
    THEN formatLoop(nodes, argv, i + 1, cursor, out \o nodes[i].Text, recv)
  ELSE formatNode(nodes, argv, i, out, recv,
                  argumentValue(nodes[i], argv, cursor))

\* FormatAST(ast, args...)
FormatAST(nodes, argv) == formatLoop(nodes, argv, 1, 0, <<>>, <<>>)

\* sprintfjs.go:174-178: the parse error, or the render of the parsed AST
formatParsed(parsed, argv) ==
  IF parsed.err # NoErr
  THEN [output |-> <<>>, err |-> parsed.err, received |-> <<>>]
  ELSE FormatAST(parsed.ast, argv)

\* Format(format, args...)
Format(fmt, argv) == formatParsed(Parse(fmt), argv)
---------------------------------------------------------------------------
(* The calls the model makes.  A call starts with its inputs drawn and     *)
(* pc = "start"; each action runs one exported or internal function to     *)
(* its return.                                                             *)

MaxTokens == 3

MaxArgs == 2

MaxParseTokens == 3

MaxWidth == 5

MaxExponent == 12

\* all sequences of at most n elements of S
SeqsUpTo(S, n) == UNION {[1..m -> S] : m \in 0..n}

Int5 == IntV("int", 5)

StrAb == StrV(<<"a", "b">>)

MapJ == MapV(<< <<<<"j">>, IntV("int", 7)>> >>)

MapKJ == MapV(<< <<<<"k">>, MapJ>> >>)

\* the tokens format strings are drawn from: text, %%, implicit, explicit
\* and named placeholders
FormatTokens ==
  {<<"a">>, <<"%", "%">>, <<"%", "s">>, <<"%", "d">>, <<"%", "2", "$", "s">>, <<"%", "(", "j", ")", "s">>, <<"%", "(", "k", ".", "j", ")", "d">>}

Formats == {Concat(ts) : ts \in SeqsUpTo(FormatTokens, MaxTokens)}

ArgValues == {Int5, StrAb, MapJ, MapKJ}

ArgLists == SeqsUpTo(ArgValues, MaxArgs)

\* the tokens of the Parse calls: also a malformed directive, a key path
\* that does not parse and a width beyond the int range
ParseTokens ==
  {<<"a">>, <<"%", "%">>, <<"%", "s">>, <<"%", "1", "$", "s">>, <<"%", "(", "k", ")", "s">>, <<"%", "(", "1", ")", "s">>, <<"%", "!">>,
   <<"%", "9", "9", "9", "9", "9", "9", "9", "9", "9", "9", "9", "9", "9", "9", "9", "9", "9", "9", "9", "9", "s">>}

ParseFormats == {Concat(ts) : ts \in SeqsUpTo(ParseTokens, MaxParseTokens)}

\* the digits of a small natural number
NatDigits(n) == IF n = 0 THEN <<"0">> ELSE magDigits(WideOf(n).mag, 10, LowerDigits)

\* the directives of the formatPlaceholder calls: every type character
\* plain and with a precision, and the sign, pad, alignment and width
\* flags on a number, a string and an unsigned type
PlainDirectives ==
  {<<"%">> \o p \o <<c>> : p \in {<<>>, <<".", "1">>}, c \in TypeChars}

PaddedDirectives ==
  {<<"%">> \o sg \o pd \o al \o NatDigits(w) \o <<c>> :
     sg \in {<<>>, <<"+">>}, pd \in {<<>>, <<"0">>, <<"'", "_">>, <<"'", "0">>},
     al \in {<<>>, <<"-">>}, w \in 1..MaxWidth, c \in {"d", "s", "x"}}

Placeholders ==
  {Parse(d).ast[1] : d \in PlainDirectives \cup PaddedDirectives}

Values ==
  {NilV, BoolV(TRUE), BoolV(FALSE),
   IntV("int", -255), IntV("int", -2), IntV("int", 0), IntV("int", 2),
   IntV("int", 100000), IntV("int8", -8), IntV("int32", -2),
   IntV("int64", -2), IntV("int64", 5), IntV("uint8", 65),
   StrV(<<>>), StrV(<<"0">>), StrV(<<"2">>), StrV(<<"-", "3">>), StrV(<<"a", "b", "c">>),
   MapV(<<>>), MapJ, PtrV(TRUE, 0), PtrV(FALSE, 7),
   FuncV(IntV("int", 2)), FuncV(StrV(<<"a", "b", "c">>)), FuncV(BoolV(FALSE))}

\* what strconv.FormatFloat(f, 'e', prec, 64) returns, for floats of one
\* and two significant digits and of every exponent to MaxExponent
ExponentStrings ==
  {FormatFloat([neg |-> n, d |-> d, dp |-> IF d = <<>> THEN 0 ELSE e + 1], "e", p) :
     n \in BOOLEAN, d \in {<<>>, <<"2">>, <<"1", "5">>},
     e \in (-MaxExponent)..MaxExponent, p \in {-1, 2}}

NoNode == TextNode(<<>>)

\* the goroutines that render the one parsed AST
Threads == {1, 2}

\* a goroutine that has not called FormatAST: its arguments, the index of
\* the node its loop is at, and its locals cursor and output
IdleCall ==
  [pc |-> "idle", args |-> <<>>, i |-> 1, cursor |-> 0, output |-> <<>>,
   err |-> NoErr]

NoCalls == [t \in Threads |-> IdleCall]

Idle ==
  /\ pc = "start"
  /\ ast = <<>>
  /\ err = NoErr
  /\ output = <<>>
  /\ received = <<>>
  /\ calls = NoCalls

Init ==
  /\ Idle
  /\ format \in Formats
  /\ args \in ArgLists
  /\ ph = NoNode
  /\ value = NilV
  /\ s = <<>>

\* ast, err := Parse(format)
DoParse ==
  /\ pc = "start"
  /\ pc' = "parsed"
  /\ \E parsed \in {Parse(format)} :
       /\ ast' = parsed.ast
       /\ err' = parsed.err
  /\ UNCHANGED <<format, args, output, received, ph, value, s, calls>>

\* output, err := FormatAST(ast, args...) on a parsed AST
DoFormatAST ==
  /\ pc = "parsed"
  /\ err = NoErr
  /\ pc' = "done"
  /\ \E r \in {FormatAST(ast, args)} :
       /\ output' = r.output
       /\ err' = r.err
       /\ received' = r.received
  /\ UNCHANGED <<format, args, ast, ph, value, s, calls>>

\* output, err := Format(format, args...)
DoFormat ==
  /\ pc = "start"
  /\ pc' = "done"
  /\ \E parsed \in {Parse(format)} :
       \E r \in {formatParsed(parsed, args)} :
          /\ ast' = parsed.ast
          /\ output' = r.output
          /\ err' = r.err
          /\ received' = r.received
  /\ UNCHANGED <<format, args, ph, value, s, calls>>

Next == DoParse \/ DoFormatAST \/ DoFormat

Spec == Init /\ [][Next]_vars

\* the same calls on arguments drawn from a number and a nested mapping
EscapeArgLists == SeqsUpTo({Int5, MapKJ}, MaxArgs)

InitEscape ==
  /\ Idle
  /\ format \in Formats
  /\ args \in EscapeArgLists
  /\ ph = NoNode
  /\ value = NilV
  /\ s = <<>>

SpecEscape == InitEscape /\ [][Next]_vars

\* Parse alone, on format strings that may be malformed
InitParse ==
  /\ Idle
  /\ format \in ParseFormats
  /\ args = <<>>
  /\ ph = NoNode
  /\ value = NilV
  /\ s = <<>>

NextParse == DoParse

SpecParse == InitParse /\ [][NextParse]_vars

\* formatted, err := formatPlaceholder(ph, value)
InitPlaceholder ==
  /\ Idle
  /\ format = <<>>
  /\ args = <<>>
  /\ ph \in Placeholders
  /\ value \in Values
  /\ s = <<>>

DoFormatPlaceholder ==
  /\ pc = "start"
  /\ pc' = "done"
  /\ \E f \in {formatPlaceholder(ph, value)} :
       /\ output' = f.formatted
       /\ err' = f.err
  /\ UNCHANGED <<format, args, ast, received, ph, value, s, calls>>

NextPlaceholder == DoFormatPlaceholder

SpecPlaceholder == InitPlaceholder /\ [][NextPlaceholder]_vars

\* output := trimExcessZerosFromExponent(s)
InitExponent ==
  /\ Idle
  /\ format = <<>>
  /\ args = <<>>
  /\ ph = NoNode
  /\ value = NilV
  /\ s \in ExponentStrings

DoTrimExponent ==
  /\ pc = "start"
  /\ pc' = "done"
  /\ output' = trimExcessZerosFromExponent(s)
  /\ UNCHANGED <<format, args, ast, err, received, ph, value, s, calls>>

NextExponent == DoTrimExponent

SpecExponent == InitExponent /\ [][NextExponent]_vars

\* FormatAST called from several goroutines on the one parsed AST, each
\* call interleaved with the others between two iterations of its loop
SharedTokens == {<<"a">>, <<"%", "d">>, <<"%", "(", "j", ")", "s">>}

SharedFormats == {Concat(ts) : ts \in SeqsUpTo(SharedTokens, MaxTokens)}

SharedArgLists == SeqsUpTo({Int5, MapJ}, MaxArgs)

\* a cursor that starts where the goroutine's last call left it
entryCursorKept(call) == call.cursor

\* sprintfjs.go:183: cursor := 0
entryCursor(call) == 0

\* sprintfjs.go:193, 199: return "", err
callFailed(call, e) ==
  [call EXCEPT !.pc = "returned", !.output = <<>>, !.err = e]

\* sprintfjs.go:189, 195, 202: the text is written and the loop moves on
callWrote(call, cursor, text) ==
  [call EXCEPT !.i = @ + 1, !.cursor = cursor, !.output = @ \o text]

\* sprintfjs.go:197-204
callFormatted(call, a, f) ==
  IF f.err # NoErr THEN callFailed(call, f.err)
  ELSE callWrote(call, a.nextCursor, f.formatted)

\* sprintfjs.go:191-197
callResolved(node, call, a) ==
  IF a.err # NoErr THEN callFailed(call, a.err)
  ELSE callFormatted(call, a, formatPlaceholder(node, a.arg))

\* sprintfjs.go:187-205: one iteration of the loop of FormatAST, on a copy
\* of the node
loopBody(node, call) ==
  IF node.Text # <<>> THEN callWrote(call, call.cursor, node.Text)
  ELSE callResolved(node, call, argumentValue(node, call.args, call.cursor))

InitShared ==
  /\ Idle
  /\ format \in SharedFormats
  /\ args = <<>>
  /\ ph = NoNode
  /\ value = NilV
  /\ s = <<>>

\* goroutine t calls FormatAST(ast, argv...)
BeginFormatAST(t) ==
  /\ pc = "parsed"
  /\ err = NoErr
  /\ calls[t].pc # "running"
  /\ \E argv \in SharedArgLists :
       calls' = [calls EXCEPT ![t] =
                   [pc |-> "running", args |-> argv, i |-> 1,
                    cursor |-> entryCursor(calls[t]), output |-> <<>>,
                    err |-> NoErr]]
  /\ UNCHANGED <<pc, format, args, ast, err, output, received, ph, value, s>>

\* goroutine t runs one iteration of its loop
StepFormatAST(t) ==
  /\ calls[t].pc = "running"
  /\ calls[t].i <= Len(ast)
  /\ calls' = [calls EXCEPT ![t] = loopBody(ast[calls[t].i], calls[t])]
  /\ UNCHANGED <<pc, format, args, ast, err, output, received, ph, value, s>>

\* sprintfjs.go:207: return output.String(), nil
ReturnFormatAST(t) ==
  /\ calls[t].pc = "running"
  /\ calls[t].i > Len(ast)
  /\ calls' = [calls EXCEPT ![t].pc = "returned"]
  /\ UNCHANGED <<pc, format, args, ast, err, output, received, ph, value, s>>

NextShared ==
  \/ DoParse
  \/ \E t \in Threads : BeginFormatAST(t)
  \/ \E t \in Threads : StepFormatAST(t)
  \/ \E t \in Threads : ReturnFormatAST(t)

SpecShared == InitShared /\ [][NextShared]_vars

---------------------------------------------------------------------------
(* The tokens of a format string as the three token patterns cut it, read  *)
(* off the text alone.                                                     *)

\* the token at the head of str, m the match of the placeholder pattern
\* there: its kind, its length (0 when no pattern matches), its offset, and
\* whether a placeholder has an index and a width in the int range and a
\* key path that parses
TokenOf(str, m, at) ==
  IF reText(str) > 0
  THEN [kind |-> "text", len |-> reText(str), at |-> at, clean |-> TRUE]
  ELSE IF reModulo(str)
  THEN [kind |-> "modulo", len |-> 2, at |-> at, clean |-> TRUE]
  ELSE IF ~m.ok
  THEN [kind |-> "malformed", len |-> 0, at |-> at, clean |-> FALSE]
  ELSE [kind |-> IF m.m2 # <<>> THEN "named" ELSE "positional",
        len |-> Len(m.m0), at |-> at,
        clean |-> /\ optionalAtoi(m.m1).ok
                  /\ optionalAtoi(m.m6).ok
                  /\ optionalKeys(m.m2).ok]

RECURSIVE Lex(_, _)

LexRest(str, t) ==
  <<t>> \o (IF t.len = 0 THEN <<>> ELSE Lex(Drop(str, t.len), t.at + t.len))

\* the tokens of str in order, up to the first text no pattern matches
Lex(str, at) ==
  IF str = <<>> THEN <<>> ELSE LexRest(str, TokenOf(str, rePlaceholder(str), at))

IsPlaceholderToken(t) == t.kind \in {"named", "positional"}

HasKind(toks, kind) == \E i \in DOMAIN toks : toks[i].kind = kind

\* token i is a placeholder of the other kind than an earlier placeholder
MixesAt(toks, i) ==
  /\ IsPlaceholderToken(toks[i])
  /\ \E j \in 1..(i - 1) :
       IsPlaceholderToken(toks[j]) /\ toks[j].kind # toks[i].kind

\* the tokens mix the two kinds, and every token up to and including the
\* first placeholder of the second kind is well formed
MixesCleanly(toks) ==
  \E i \in DOMAIN toks :
    /\ MixesAt(toks, i)
    /\ \A j \in 1..i : toks[j].kind # "malformed" /\ toks[j].clean
    /\ \A j \in 1..(i - 1) : ~MixesAt(toks, j)

\* Parse has failed with the mixed-style error exactly when the tokens mix
\* the two kinds cleanly
MixedExactlyWhenClean(toks) ==
  /\ err = ErrMixed <=> MixesCleanly(toks)
  /\ err = ErrMixed => HasKind(toks, "named") /\ HasKind(toks, "positional")

\* Parse has failed with the mixed-style error exactly when the well-formed
\* tokens hold both kinds
MixedExactlyWhenBoth(toks) ==
  ~HasKind(toks, "malformed") =>
    (err = ErrMixed <=> HasKind(toks, "named") /\ HasKind(toks, "positional"))

\* C1, as amended: Parse fails with the mixed-placeholder-style error exactly
\* when the format holds a named and a positional placeholder and every
\* token up to and including the first placeholder of the second kind is
\* well formed, with an index and a width in the int range and a key path
\* that parses; whichever kind comes first, whatever text or %% lies
\* between.  A format whose placeholders are all named or all positional
\* never gets the error.
C1_MixedStyle == pc = "parsed" => MixedExactlyWhenClean(Lex(format, 0))

\* three tokens: a positional placeholder, an escaped percent sign, then a
\* named placeholder
PositionalEscapeNamed(toks) ==
  /\ Len(toks) = 3
  /\ toks[1].kind = "positional"
  /\ toks[2].kind = "modulo"
  /\ toks[3].kind = "named"

\* C1: a positional placeholder, an escaped percent sign, then a named
\* placeholder, and Parse has failed with the mixed-style error
C1_MixedStyle_Witness ==
  pc = "parsed" /\ err = ErrMixed /\ PositionalEscapeNamed(Lex(format, 0))

\* C1 as the specification states it: every format of well-formed tokens
\* that holds a named and a positional placeholder fails with the
\* mixed-style error, and no other format does
C1_MixedStyle_AsStated ==
  pc = "parsed" => MixedExactlyWhenBoth(Lex(format, 0))

---------------------------------------------------------------------------

InsertAt(str, at, ins) == Take(str, at) \o ins \o Drop(str, at)

\* the offsets at which a token starts or the last token ends
Boundaries(str, toks) == {0, Len(str)} \cup {toks[i].at : i \in DOMAIN toks}

\* the number of tokens that end at or before the offset at
TokensBefore(toks, at) == Cardinality({i \in DOMAIN toks : toks[i].at < at})

\* the nodes of the received arguments when a node is inserted after the
\* first m nodes
Shifted(recv, m) ==
  [e \in DOMAIN recv |->
     [node |-> IF recv[e].node > m THEN recv[e].node + 1 ELSE recv[e].node,
      arg |-> recv[e].arg]]

\* the render r of the format with %% inserted after its first m tokens
\* differs from the finished render of the format only by the % written
\* there
EscapeInserted(m, r) ==
  /\ r.err = err
  /\ r.received = Shifted(received, m)
  /\ r.output =
       IF err # NoErr THEN <<>>
       ELSE InsertAt(output, Len(FormatAST(SubSeq(ast, 1, m), args).output),
                     <<"%">>)

EscapeInsertedAnywhere(toks) ==
  \A at \in Boundaries(format, toks) :
    EscapeInserted(TokensBefore(toks, at),
                   Format(InsertAt(format, at, <<"%", "%">>), args))

\* C2: for any format and arguments, inserting %% at any token boundary
\* changes the output only by a single % at that place; every placeholder
\* receives the argument it received before, and the render fails as before
C2_EscapedPercent == pc = "done" => EscapeInsertedAnywhere(Lex(format, 0))

\* C2: a finished render of a format with %% between two placeholders that
\* both received an argument
C2_EscapedPercent_Witness ==
  /\ pc = "done"
  /\ err = NoErr
  /\ Len(ast) = 3
  /\ ast[2] = ModuloNode
  /\ Len(received) = 2
  /\ received[1].arg # received[2].arg

---------------------------------------------------------------------------

\* the sign formatPlaceholder hands alignedPad (sprintfjs.go:284-290)
SignOf(node, v) ==
  IF node.Type[1] \in reNumber /\ (~IsPositive(v) \/ node.Sign # <<>>)
  THEN sign(IsPositive(v)) ELSE <<>>

\* the rendered value formatPlaceholder hands alignedPad
RenderedValue(node, v) ==
  IF SignOf(node, v) # <<>> THEN reSignRemove(formatValue(node, v).str)
  ELSE formatValue(node, v).str

\* padLen, clamped to 0 when negative or when the width is not positive
PadLen(node, v) ==
  IF node.Width <= 0 THEN 0
  ELSE Max(node.Width - Len(SignOf(node, v)) - Len(RenderedValue(node, v)), 0)

\* the pad character: the default space, 0, or the one after the quote
PadChar(node) ==
  IF node.Pad = <<>> THEN " "
  ELSE IF node.Pad = <<"0">> THEN "0"
  ELSE node.Pad[2]

Padding(node, v, ch) == [i \in 1..PadLen(node, v) |-> ch]

\* the final text by the three rules, zeroPad telling the second from the
\* third
Composed(node, v, zeroPad) ==
  IF node.Align = <<"-">>
  THEN SignOf(node, v) \o RenderedValue(node, v)
         \o Padding(node, v, PadChar(node))
  ELSE IF zeroPad
  THEN SignOf(node, v) \o Padding(node, v, "0") \o RenderedValue(node, v)
  ELSE Padding(node, v, PadChar(node)) \o SignOf(node, v)
         \o RenderedValue(node, v)

\* the value the switch of formatPlaceholder is handed for the argument of
\* the call
Dispatched == deferredValue(ph, value)

\* C3, as amended: the final text of a non-JSON placeholder is sign + value
\* + padding when left-aligned; sign + zeros + value when right-aligned and
\* the pad character is 0, whether the pad spec is 0 or the quoted '0; and
\* padding + sign + value when right-aligned with any other pad character.
\* A value at least as long as the width is neither truncated nor padded.
C3_Padding ==
  pc = "done" /\ ph.Type # <<"j">> /\ err = NoErr =>
    /\ output = Composed(ph, Dispatched, PadChar(ph) = "0")
    /\ Len(SignOf(ph, Dispatched)) + Len(RenderedValue(ph, Dispatched)) >= ph.Width =>
         output = SignOf(ph, Dispatched) \o RenderedValue(ph, Dispatched)

\* C3: a negative number right-aligned in a wider field with the quoted pad
\* character 0
C3_Padding_Witness ==
  /\ pc = "done"
  /\ err = NoErr
  /\ ph.Type = <<"d">>
  /\ ph.Pad = <<"'", "0">>
  /\ ph.Align = <<>>
  /\ SignOf(ph, Dispatched) = <<"-">>
  /\ PadLen(ph, Dispatched) >= 2

\* C3 as the specification states it: the sign goes before the padding only
\* when the pad spec is the zero-pad 0; a pad character supplied with a
\* quote is written before the sign
C3_Padding_AsStated ==
  pc = "done" /\ ph.Type # <<"j">> /\ err = NoErr =>
    output = Composed(ph, Dispatched, ph.Pad = <<"0">>)

---------------------------------------------------------------------------

\* a directive of the type character alone: no sign, pad, alignment, width
\* or precision
PlainPlaceholder(node) ==
  /\ node.Sign = <<>>
  /\ node.Pad = <<>>
  /\ node.Align = <<>>
  /\ node.Width = 0
  /\ node.Precision = <<>>

\* the base of an unsigned type character
BaseOf(c) ==
  CASE c = "u" -> 10
    [] c = "b" -> 2
    [] c = "o" -> 8
    [] OTHER -> 16

\* 2^32 + v for the kinds int, int8 and int32, 2^64 + v for int64, written
\* in the base of the type character c
UnsignedEquivalent(v, c) ==
  FormatInt(IF v.k = "int64" THEN ToUint64(v.n) ELSE ToUint32(v.n),
            BaseOf(c), IF c = "X" THEN UpperDigits ELSE LowerDigits)

\* C4: under the type characters u, b, o, x and X a negative integer is
\* rendered as its two's-complement unsigned equivalent in the base of the
\* type character, 2^32 + v for int, int8 and int32 and 2^64 + v for int64,
\* and the text never starts with a minus sign
C4_UnsignedNegative ==
  /\ pc = "done"
  /\ ph.Type[1] \in {"u", "b", "o", "x", "X"}
  /\ PlainPlaceholder(ph)
  /\ value.k \in SignedKinds
  /\ value.n.neg
  => /\ err = NoErr
     /\ output = UnsignedEquivalent(value, ph.Type[1])
     /\ Head(output) # "-"

---------------------------------------------------------------------------

\* the index of the exponent character of a scientific-notation string
ExponentAt(str) == CHOOSE i \in DOMAIN str : str[i] = "e"

\* mantissa, e and the sign as they are, then the digits of the exponent's
\* integer value
MinimalExponent(str) ==
  Take(str, ExponentAt(str) + 1) \o StripZeros(Drop(str, ExponentAt(str) + 1))

\* C5: for every string mantissa e sign digits of the float formatter, the
\* normalized text has exactly the digits of the exponent's integer value,
\* with the mantissa and the exponent's value unchanged
C5_MinimalExponent ==
  pc = "done" => output = MinimalExponent(s)

---------------------------------------------------------------------------

\* C6: under each of the type characters b, d, e, f, g, i, o, u, x and X a
\* value that is not a number fails with the not-a-number error and no
\* output, and a value that is a number never gets that error
C6_NotANumber ==
  pc = "done" /\ ph.Type[1] \in {"b", "d", "e", "f", "g", "i", "o", "u", "x", "X"} =>
    /\ IsNaN(value) => err = ErrNotANumber /\ output = <<>>
    /\ ~IsNaN(value) => err # ErrNotANumber

---------------------------------------------------------------------------

\* the placeholder nodes of an AST
PlaceholderNodes(nodes) == {i \in DOMAIN nodes : nodes[i].Text = <<>>}

\* the nodes the render handed an argument
ReceivedNodes == {received[e].node : e \in DOMAIN received}

\* no placeholder of the AST is named
PositionalMode(nodes) ==
  \A i \in PlaceholderNodes(nodes) : nodes[i].Keys = <<>>

\* k for the k-th placeholder without an explicit index, n for n$
ArgIndex(nodes, i) ==
  IF nodes[i].ParamNo # 0 THEN nodes[i].ParamNo
  ELSE Cardinality({j \in PlaceholderNodes(nodes) :
                      j <= i /\ nodes[j].ParamNo = 0})

OutOfRange(nodes, argv, i) == ArgIndex(nodes, i) \notin 1..Len(argv)

\* every placeholder before node i is in range and renders its argument
RendersUpTo(nodes, argv, i) ==
  \A j \in PlaceholderNodes(nodes) :
    j < i =>
      /\ ~OutOfRange(nodes, argv, j)
      /\ formatPlaceholder(nodes[j], argv[ArgIndex(nodes, j)]).err = NoErr

\* each placeholder that was handed an argument was handed args[k-1], k its
\* rank among the placeholders without an explicit index, or args[n-1]
ReceivesByRank ==
  \A e \in DOMAIN received :
    /\ ~OutOfRange(ast, args, received[e].node)
    /\ received[e].arg = args[ArgIndex(ast, received[e].node)]

\* C7, as amended: over a positional-mode AST the k-th placeholder without
\* an explicit index receives args[k-1] whatever is interleaved before it,
\* and n$ receives args[n-1] without moving the cursor.  The render fails
\* with the out-of-range error exactly when some placeholder is out of
\* range (k > len(args), or n outside [1, len(args)]) and every placeholder
\* before the first such one renders its argument without error.
C7_PositionalCursor ==
  pc = "done" /\ PositionalMode(ast) =>
    /\ ReceivesByRank
    /\ err = ErrIndexRange <=>
         \E i \in PlaceholderNodes(ast) :
           OutOfRange(ast, args, i) /\ RendersUpTo(ast, args, i)

\* C7: n$ before two placeholders without an index; each of the two has
\* received the argument of its rank
C7_PositionalCursor_Witness ==
  /\ pc = "done"
  /\ err = NoErr
  /\ Len(ast) = 3
  /\ ast[1].ParamNo = 2
  /\ ast[2].Text = <<>> /\ ast[2].ParamNo = 0 /\ ast[2].Keys = <<>>
  /\ ast[3].Text = <<>> /\ ast[3].ParamNo = 0 /\ ast[3].Keys = <<>>
  /\ Len(args) = 2
  /\ args[1] # args[2]
  /\ Len(received) = 3
  /\ received[2].arg = args[1]
  /\ received[3].arg = args[2]

\* C7 as the specification states it: the render fails with the
\* out-of-range error exactly when some placeholder is out of range
C7_PositionalCursor_AsStated ==
  pc = "done" /\ PositionalMode(ast) =>
    /\ ReceivesByRank
    /\ err = ErrIndexRange <=>
         \E i \in PlaceholderNodes(ast) : OutOfRange(ast, args, i)

---------------------------------------------------------------------------

\* every placeholder of the AST is named, and there is one
NamedMode(nodes) ==
  /\ PlaceholderNodes(nodes) # {}
  /\ \A i \in PlaceholderNodes(nodes) : nodes[i].Keys # <<>>

\* the value a string-keyed mapping holds under key, nil when absent
Lookup(pairs, key) ==
  IF \E i \in DOMAIN pairs : pairs[i][1] = key
  THEN (CHOOSE p \in {pairs[i] : i \in DOMAIN pairs} : p[1] = key)[2]
  ELSE NilV

\* the value reached from root by the key segments, nil from where the walk
\* leaves the mappings
RECURSIVE PathValue(_, _)
PathValue(root, keys) ==
  IF keys = <<>> THEN root
  ELSE IF root.k # "map" THEN NilV
  ELSE PathValue(Lookup(root.m, Head(keys)), Tail(keys))

\* before the key path is exhausted the current value is always a mapping
Traversable(root, keys) ==
  \A j \in 0..(Len(keys) - 1) : PathValue(root, Take(keys, j)).k = "map"

\* the first placeholder the render did not hand an argument, 0 for none
FirstUnresolved ==
  IF PlaceholderNodes(ast) \subseteq ReceivedNodes THEN 0
  ELSE CHOOSE i \in PlaceholderNodes(ast) \ ReceivedNodes :
         \A j \in PlaceholderNodes(ast) \ ReceivedNodes : i <= j

\* C8: in named mode every placeholder resolves against the leading
\* argument, so one argument serves any number of placeholders; the value
\* is found by walking the key segments through nested mappings.  A
\* resolution fails, with the key-path traversal error, exactly when before
\* the key path is exhausted the current value is nil, absent or not a
\* mapping; a final segment whose key is absent resolves to nil.
C8_NamedResolution ==
  pc = "done" /\ NamedMode(ast) /\ args # <<>> =>
    /\ err # ErrIndexRange
    /\ \A e \in DOMAIN received :
         /\ Traversable(args[1], ast[received[e].node].Keys)
         /\ received[e].arg = PathValue(args[1], ast[received[e].node].Keys)
    /\ err = ErrKeyTraversal <=>
         /\ FirstUnresolved # 0
         /\ ~Traversable(args[1], ast[FirstUnresolved].Keys)
         /\ \A e \in DOMAIN received :
              formatPlaceholder(ast[received[e].node], received[e].arg).err
                = NoErr
    /\ FirstUnresolved # 0 /\ Traversable(args[1], ast[FirstUnresolved].Keys)
         => err \in {ErrNotANumber, ErrFormatValue}

\* C8: two named placeholders served by the one argument, the key of the
\* second absent from the mapping and resolved to nil
C8_NamedResolution_Witness ==
  /\ pc = "done"
  /\ err = NoErr
  /\ Len(args) = 1
  /\ Len(received) = 2
  /\ Len(ast[received[1].node].Keys) = 2
  /\ received[1].arg # NilV
  /\ Len(ast[received[2].node].Keys) = 1
  /\ received[2].arg = NilV

---------------------------------------------------------------------------

\* what the type character t renders by the rules as stated
StatedTruth(v) ==
  CASE v.k = "nil" -> FALSE
    [] v.k = "ptr" -> ~v.isnil
    [] v.k \in IntKinds -> ~magIsZero(v.n.mag)
    [] v.k = "bool" -> v.b
    [] OTHER -> Sprint(v) \notin {<<>>, <<"0">>}

StatedWord(v) ==
  IF StatedTruth(v) THEN <<"t", "r", "u", "e">>
  ELSE <<"f", "a", "l", "s", "e">>

\* C9: the type character t renders false for a nil value or a nil
\* pointer, true for a non-nil pointer, true for a number iff it is not
\* zero, a boolean as it is, and any other value false iff its string form
\* is empty or 0; a precision p keeps the first p characters of the word
C9_BooleanCoercion ==
  pc = "done" /\ ph.Type = <<"t">> /\ ph.Width = 0 =>
    /\ err = NoErr
    /\ output = IF ph.Precision = <<>> THEN StatedWord(value)
                ELSE TruncateTo(StatedWord(value), Atoi(ph.Precision).v)

---------------------------------------------------------------------------

\* the text of node i of the finished render
NodeText(i) ==
  IF ast[i].Text # <<>> THEN ast[i].Text
  ELSE formatPlaceholder(
         ast[i],
         received[CHOOSE e \in DOMAIN received : received[e].node = i].arg
       ).formatted

\* some placeholder was not handed an argument, or did not render the one
\* it was handed
SomeNodeFailed ==
  \/ FirstUnresolved # 0
  \/ \E e \in DOMAIN received :
       formatPlaceholder(ast[received[e].node], received[e].arg).err # NoErr

\* C10: when the resolution or the rendering of some placeholder fails,
\* FormatAST and Format return the error with the empty string, never the
\* output of the nodes before the failing one; when no node fails, the
\* result is the concatenation of the nodes' texts in AST order
C10_AbortOnFailure ==
  pc = "done" =>
    IF Parse(format).err # NoErr
    THEN err = Parse(format).err /\ output = <<>>
    ELSE IF SomeNodeFailed THEN err # NoErr /\ output = <<>>
    ELSE err = NoErr /\ output = Concat([i \in DOMAIN ast |-> NodeText(i)])

\* C10: a render that failed at its third node after a text and a
\* placeholder that rendered
C10_AbortOnFailure_Witness ==
  /\ pc = "done"
  /\ Len(ast) = 3
  /\ ast[1].Text # <<>>
  /\ ast[2].Text = <<>>
  /\ ast[3].Text = <<>>
  /\ Len(received) >= 1
  /\ formatPlaceholder(ast[2], received[1].arg).formatted # <<>>
  /\ err # NoErr
  /\ output = <<>>

---------------------------------------------------------------------------

\* the implicit positional placeholders among the first n nodes
ImplicitBefore(nodes, n) ==
  Cardinality({k \in 1..n : /\ nodes[k].Text = <<>>
                            /\ nodes[k].Keys = <<>>
                            /\ nodes[k].ParamNo = 0})

\* the call has returned what the standalone render r of the whole AST
\* returns
ReturnedAs(call, r) == call.err = r.err /\ call.output = r.output

\* the call, about to run node call.i, has written what the standalone
\* render r of the nodes before it returns, and its cursor counts the
\* implicit placeholders among them
RunningAs(call, r) ==
  /\ r.err = NoErr
  /\ call.output = r.output
  /\ call.err = NoErr
  /\ call.cursor = ImplicitBefore(ast, call.i - 1)

AsStandalone(call) ==
  CASE call.pc = "idle" -> TRUE
    [] call.pc = "running" ->
         RunningAs(call, FormatAST(SubSeq(ast, 1, call.i - 1), call.args))
    [] call.pc = "returned" -> ReturnedAs(call, FormatAST(ast, call.args))

\* C11: while any number of FormatAST calls on one parsed AST run
\* interleaved or one after another, with equal or different arguments,
\* succeeding or failing, the AST stays what Parse returned, every call
\* under way has written what a standalone call writes up to its node with
\* a cursor counted from 0, and every finished call has returned the output
\* or error of a standalone call with its arguments
C11_SharedAST ==
  (pc = "parsed" /\ err = NoErr) =>
    /\ ast = Parse(format).ast
    /\ \A t \in Threads : AsStandalone(calls[t])

\* C11: one goroutine is past two implicit placeholders of the AST while
\* the other has returned an error for different arguments
C11_SharedAST_Witness ==
  /\ calls[1].pc = "running"
  /\ calls[1].i = 3
  /\ calls[1].cursor = 2
  /\ calls[2].pc = "returned"
  /\ calls[2].err # NoErr
  /\ calls[2].args # calls[1].args

---------------------------------------------------------------------------

\* the finished formatPlaceholder call has returned r
PlaceholderReturned(r) == output = r.formatted /\ err = r.err

\* C12: a placeholder of a type other than T and v that is handed a
\* function of no arguments renders exactly as if it had been handed the
\* value the function returns, so a function returning 2 renders under %d
\* as the argument 2 does; a placeholder of type T or v renders the
\* function itself
C12_DeferredValue ==
  pc = "done" /\ isFunc(value) =>
    IF ph.Type[1] \notin {"T", "v"}
    THEN PlaceholderReturned(formatPlaceholder(ph, value.results[1]))
    ELSE PlaceholderReturned(formatDispatched(ph, value))

=============================================================================
